---------------------------- MODULE Spec2Model ----------------------------
(***************************************************************************)
(* A model of the augmentation transforms of src/utils/augmentations.py:   *)
(* jaccard_numpy, ToAbsoluteCoords, ToPercentCoords, RandomHue,            *)
(* RandomSampleCrop, Expand, RandomMirror and PhotometricDistort.          *)
(*                                                                         *)
(* The box array and the image are numpy floating-point arrays.  Their     *)
(* arithmetic is modelled as IEEE binary floating point, round-to-nearest- *)
(* even, with a significand of SigBits bits and an unbounded exponent: a   *)
(* finite float is the pair <<m, e>> standing for m * 2^e, with m odd (or  *)
(* <<0, 0>>), and NaN is the string "nan".                                 *)
(*                                                                         *)
(* The scalars the transforms draw at random are Python floats.  Those of  *)
(* Expand (ratio, left, top) are floats of the same kind, drawn among the  *)
(* multiples of 1/SubPix and the floats just below an integer; those of    *)
(* the photometric transforms are drawn from a few floats of their range.  *)
(* Those of RandomSampleCrop (w, h, left, top) are drawn among the         *)
(* multiples of 1/SubPix, on which their arithmetic is exact, and are kept *)
(* as integer counts of 1/SubPix: only the rectangle int() makes of them   *)
(* is used.  random.uniform(low, high) draws from the half-open interval   *)
(* that starts at low.                                                     *)
(*                                                                         *)
(* A transform that raises leaves pc = "raised" and the pipeline stops.    *)
(***************************************************************************)
EXTENDS Integers, Sequences, FiniteSets, TLC

\* ------------------------------------------------------------ bounds
\* Bits of the significand of the box array's floating-point type.
SigBits == 10
\* Largest image height and width drawn for an input image.
MaxDim == 2
\* Largest number of rows of an input box array.
MaxBoxes == 2
\* The random scalars are drawn among the multiples of 1/SubPix.
SubPix == 4
\* Stage calls of a pipeline.
MaxStages == 2

\* ------------------------------------------------- floating point
NaN == "nan"

Abs(n) == IF n < 0 THEN 0 - n ELSE n

Sign(n) == IF n < 0 THEN 0 - 1 ELSE 1

\* <<m, e>> with the trailing zero bits of m moved into the exponent.
RECURSIVE Norm(_, _)
Norm(m, e) ==
    IF m = 0 THEN <<0, 0>>
    ELSE IF m % 2 = 0 THEN Norm(m \div 2, e + 1)
    ELSE <<m, e>>

\* How many low bits n >= 0 has beyond SigBits bits.
RECURSIVE DropBits(_)
DropBits(n) == IF n < 2 ^ SigBits THEN 0 ELSE 1 + DropBits(n \div 2)

\* The float nearest to the real n * 2^e (n an integer), ties to even.
FloatRound(n, e) ==
    LET a == Abs(n)
        k == DropBits(a)
        q == 2 ^ k
        base == a \div q
        rem == a % q
        up == k > 0 /\ (2 * rem > q \/ (2 * rem = q /\ base % 2 = 1))
    IN  Norm(Sign(n) * (IF up THEN base + 1 ELSE base), e + k)

IsNaN(a) == a = NaN

Min2(i, j) == IF i <= j THEN i ELSE j

\* The integer a[1] * 2^(a[2] - e), for e <= a[2].
Scaled(a, e) == a[1] * 2 ^ (a[2] - e)

\* The exact difference a - b of two finite floats as an integer times 2^e.
ExactDiff(a, b) ==
    LET e == Min2(a[2], b[2]) IN <<Scaled(a, e) - Scaled(b, e), e>>

FromInt(n) == FloatRound(n, 0)

FAdd(a, b) ==
    IF IsNaN(a) \/ IsNaN(b) THEN NaN
    ELSE LET e == Min2(a[2], b[2]) IN FloatRound(Scaled(a, e) + Scaled(b, e), e)

FSub(a, b) ==
    IF IsNaN(a) \/ IsNaN(b) THEN NaN
    ELSE LET d == ExactDiff(a, b) IN FloatRound(d[1], d[2])

FMul(a, b) ==
    IF IsNaN(a) \/ IsNaN(b) THEN NaN
    ELSE FloatRound(a[1] * b[1], a[2] + b[2])

\* How far to shift n > 0 left until it reaches d * 2^(SigBits + 1).
RECURSIVE QuotShift(_, _)
QuotShift(n, d) ==
    IF n >= d * 2 ^ (SigBits + 1) THEN 0 ELSE 1 + QuotShift(2 * n, d)

\* a / b.  The quotient is taken to SigBits + 2 bits or more with a sticky
\* last bit, so that the one rounding is that of the exact quotient.
\* 0 / 0 is NaN; x / 0 for x # 0 does not arise in this module and is NaN.
FDiv(a, b) ==
    IF IsNaN(a) \/ IsNaN(b) \/ b[1] = 0 THEN NaN
    ELSE IF a[1] = 0 THEN <<0, 0>>
    ELSE LET n == Abs(a[1])
             d == Abs(b[1])
             s == QuotShift(n, d)
             num == n * 2 ^ s
             quo == num \div d
             sticky == IF num % d = 0 THEN 0 ELSE 1
         IN  FloatRound(Sign(a[1]) * Sign(b[1]) * (2 * quo + sticky),
                        a[2] - b[2] - s - 1)

\* The largest float below the integer n >= 1: n - 2^-SigBits, truncated to
\* SigBits bits.
FloatBelow(n) ==
    LET a == n * 2 ^ SigBits - 1
        k == DropBits(a)
    IN  Norm(a \div 2 ^ k, k - SigBits)

\* int(v) of a float v >= 0.
IntOfFloat(v) ==
    IF v[2] >= 0 THEN v[1] * 2 ^ v[2] ELSE v[1] \div 2 ^ (0 - v[2])

\* Comparisons; any comparison with NaN is false.
FLess(a, b) == ~IsNaN(a) /\ ~IsNaN(b) /\ ExactDiff(a, b)[1] < 0

FLeq(a, b) == ~IsNaN(a) /\ ~IsNaN(b) /\ ExactDiff(a, b)[1] <= 0

\* np.maximum and np.minimum propagate NaN.
FMax(a, b) == IF IsNaN(a) \/ IsNaN(b) THEN NaN ELSE IF FLess(a, b) THEN b ELSE a

FMin(a, b) == IF IsNaN(a) \/ IsNaN(b) THEN NaN ELSE IF FLess(b, a) THEN b ELSE a

\* a < n/d for the exact rational n/d, d > 0.
FLessRat(a, n, d) ==
    /\ ~IsNaN(a)
    /\ IF a[2] >= 0 THEN a[1] * 2 ^ a[2] * d < n
       ELSE a[1] * d < n * 2 ^ (0 - a[2])

\* ------------------------------------------------------- data model
\* An image is [height, width, data], data[r][c] the pixel of row r and
\* column c (all its channels).  A box array is a sequence of rows
\* <<x1, y1, x2, y2>> of floats, a label array a sequence of integers.

Half == <<1, 0 - 1>>

\* A coordinate whose low bits lie beyond the precision of any sum or
\* difference with a whole number of pixels.
Fine == <<3, 0 - (SigBits + 2)>>

\* An image of the given size whose pixels are pairwise distinct.
IndexImage(h, w) ==
    [height |-> h, width |-> w,
     data |-> [r \in 1..h |-> [c \in 1..w |-> <<(r - 1) * w + c, r, c>>]]]

\* ---------------------------------------------- intersect, jaccard_numpy
Clip0(a) == IF IsNaN(a) THEN NaN ELSE IF FLess(a, <<0, 0>>) THEN <<0, 0>> ELSE a

\* intersect(box_a, box_b) for one row of box_a; rect is box_b as floats.
intersect(box, rect) ==
    LET w == Clip0(FSub(FMin(box[3], rect[3]), FMax(box[1], rect[1])))
        h == Clip0(FSub(FMin(box[4], rect[4]), FMax(box[2], rect[2])))
    IN  FMul(w, h)

\* area_a and area_b: (x2 - x1) * (y2 - y1)
area(b) == FMul(FSub(b[3], b[1]), FSub(b[4], b[2]))

\* union = area_a + area_b - inter
union(box, rect) == FSub(FAdd(area(box), area(rect)), intersect(box, rect))

\* jaccard_numpy with the union taken as the sum of the two areas.
jaccardNoInter(box, rect) == FDiv(intersect(box, rect), FAdd(area(box), area(rect)))

\* jaccard_numpy(box_a, box_b) for one row of box_a: inter / union
jaccard(box, rect) == FDiv(intersect(box, rect), union(box, rect))

jaccard_numpy(bxs, rect) == [i \in DOMAIN bxs |-> jaccard(bxs[i], rect)]

\* ------------------------------------- ToAbsoluteCoords, ToPercentCoords
\* ToAbsoluteCoords with the x columns scaled and the y columns left alone.
ToAbsoluteXOnly(img, bxs) ==
    [i \in DOMAIN bxs |->
        <<FMul(bxs[i][1], FromInt(img.width)), bxs[i][2],
          FMul(bxs[i][3], FromInt(img.width)), bxs[i][4]>>]

\* boxes[:, 0] *= width; boxes[:, 2] *= width; boxes[:, 1] *= height; ...
ToAbsoluteBoxes(img, bxs) ==
    [i \in DOMAIN bxs |->
        <<FMul(bxs[i][1], FromInt(img.width)), FMul(bxs[i][2], FromInt(img.height)),
          FMul(bxs[i][3], FromInt(img.width)), FMul(bxs[i][4], FromInt(img.height))>>]

\* boxes[:, 0] /= width; boxes[:, 2] /= width; boxes[:, 1] /= height; ...
ToPercentBoxes(img, bxs) ==
    [i \in DOMAIN bxs |->
        <<FDiv(bxs[i][1], FromInt(img.width)), FDiv(bxs[i][2], FromInt(img.height)),
          FDiv(bxs[i][3], FromInt(img.width)), FDiv(bxs[i][4], FromInt(img.height))>>]

\* ------------------------------------------------------------ RandomMirror
\* image[:, ::-1]
MirrorImage(img) ==
    [img EXCEPT !.data =
        [r \in 1..img.height |-> [c \in 1..img.width |-> img.data[r][img.width + 1 - c]]]]

\* The reflection without the exchange of the left and right columns.
MirrorBoxesNoSwap(width, bxs) ==
    [i \in DOMAIN bxs |->
        <<FSub(FromInt(width), bxs[i][1]), bxs[i][2],
          FSub(FromInt(width), bxs[i][3]), bxs[i][4]>>]

\* The reflection done one column after the other, in place: column 2 is
\* computed from the column 0 already overwritten.
MirrorBoxesInPlace(width, bxs) ==
    [i \in DOMAIN bxs |->
        LET x1 == FSub(FromInt(width), bxs[i][3])
        IN  <<x1, bxs[i][2], FSub(FromInt(width), x1), bxs[i][4]>>]

\* boxes[:, 0::2] = width - boxes[:, 2::-2]
MirrorBoxes(width, bxs) ==
    [i \in DOMAIN bxs |->
        <<FSub(FromInt(width), bxs[i][3]), bxs[i][2],
          FSub(FromInt(width), bxs[i][1]), bxs[i][4]>>]

\* ------------------------------------------------ photometric transforms
\* A pixel is <<c0, c1, c2>>, its three channels as floats.
MapPixels(img, F(_)) ==
    [img EXCEPT !.data =
        [r \in 1..img.height |-> [c \in 1..img.width |-> F(img.data[r][c])]]]

FNeg(a) == FSub(FromInt(0), a)

\* image[:, :, 0] += d
\* image[:, :, 0][image[:, :, 0] > 360.0] -= 360.0
\* image[:, :, 0][image[:, :, 0] < 0.0] += 360.0
HueOf(h, d) ==
    LET a == FAdd(h, d)
        b == IF FLess(FromInt(360), a) THEN FSub(a, FromInt(360)) ELSE a
    IN  IF FLess(b, FromInt(0)) THEN FAdd(b, FromInt(360)) ELSE b

RandomHueImage(img, d) ==
    MapPixels(img, LAMBDA px : <<HueOf(px[1], d), px[2], px[3]>>)

\* random.uniform(-self.delta, self.delta): whole and half degrees, and the
\* smallest steps below zero and below a whole degree.
HueDraws(delta) ==
    IF delta = 0 THEN {FromInt(0)}
    ELSE { v \in { FromInt(0 - 360), FromInt(0 - 18), FNeg(Fine), FromInt(0),
                   Half, FromInt(10), FloatBelow(18), FloatBelow(360) } :
             FLeq(FromInt(0 - delta), v) /\ FLess(v, FromInt(delta)) }

\* image += delta
BrightnessImage(img, delta) ==
    MapPixels(img, LAMBDA px : <<FAdd(px[1], delta), FAdd(px[2], delta), FAdd(px[3], delta)>>)

\* image *= alpha
ContrastImage(img, alpha) ==
    MapPixels(img, LAMBDA px : <<FMul(px[1], alpha), FMul(px[2], alpha), FMul(px[3], alpha)>>)

\* image[:, :, 1] *= random.uniform(self.lower, self.upper)
SaturationImage(img, factor) ==
    MapPixels(img, LAMBDA px : <<px[1], FMul(px[2], factor), px[3]>>)

\* SwapChannels: image[:, :, self.swaps]
SwapChannels(img, swaps) ==
    MapPixels(img, LAMBDA px : <<px[swaps[1] + 1], px[swaps[2] + 1], px[swaps[3] + 1]>>)

perms == << <<0, 1, 2>>, <<0, 2, 1>>, <<1, 0, 2>>, <<1, 2, 0>>, <<2, 0, 1>>, <<2, 1, 0>> >>

\* random.uniform(-32, 32) of RandomBrightness()
BrightnessDraws == { FromInt(0 - 32), FromInt(8) }

\* random.uniform(0.5, 1.5) of RandomContrast() and of RandomSaturation()
ContrastDraws == { Half, FDiv(FromInt(5), FromInt(4)) }

SaturationDraws == { Half, FDiv(FromInt(5), FromInt(4)) }

\* self.delta of RandomHue()
DefaultHueDelta == 18

\* The pixels the images of the photometric transforms are made of.
PhotoPixels ==
    { <<FromInt(350), Half, FromInt(200)>>,
      <<FromInt(0), FromInt(0), FromInt(0)>>,
      <<FromInt(255), FromInt(128), FromInt(10)>> }

\* cv2.cvtColor is a library call: its result is an image of the same shape,
\* of whatever pixels.
ConvertColorResults(img) ==
    { [img EXCEPT !.data = d] : d \in [1..img.height -> [1..img.width -> PhotoPixels]] }

\* self.pd of PhotometricDistort
pd ==
    << "RandomContrast", "ConvertColor(BGR,HSV)", "RandomSaturation", "RandomHue",
       "ConvertColor(HSV,BGR)", "RandomContrast" >>

\* self.pd[:-1]
PdButLast == SubSeq(pd, 1, Len(pd) - 1)

\* The middle of self.pd, with neither contrast stage.
PdMiddle == SubSeq(pd, 2, Len(pd) - 1)

\* self.pd[1:]
PdButFirst == SubSeq(pd, 2, Len(pd))

\* The images one transform of self.pd can return for an image.
Transformed(t, img) ==
    CASE t = "RandomContrast" ->
            {img} \cup { ContrastImage(img, alpha) : alpha \in ContrastDraws }
      [] t = "RandomSaturation" ->
            {img} \cup { SaturationImage(img, f) : f \in SaturationDraws }
      [] t = "RandomHue" ->
            {img} \cup { RandomHueImage(img, d) : d \in HueDraws(DefaultHueDelta) }
      [] OTHER -> ConvertColorResults(img)

\* ------------------------------------------------------------------ Expand
\* The mean colour an Expand is constructed with.
MeanPixel == <<104, 117, 123>>

\* The multiples of 1/SubPix from lo/SubPix to hi/SubPix, as floats.
Grid(lo, hi) == { FDiv(FromInt(k), FromInt(SubPix)) : k \in lo..hi }

\* random.uniform(1, 4)
RatioDraws == { r \in Grid(SubPix, 4 * SubPix) : FLess(r, FromInt(4)) }

\* int(height * ratio), int(width * ratio)
CanvasDim(dim, ratio) == IntOfFloat(FMul(FromInt(dim), ratio))

\* random.uniform(0, dim*ratio - dim): the multiples of 1/SubPix and the
\* floats just below an integer that lie in the interval.
PasteDraws(dim, ratio) ==
    LET high == FSub(FMul(FromInt(dim), ratio), FromInt(dim))
    IN  IF high = FromInt(0) THEN {FromInt(0)}
        ELSE { v \in Grid(0, 3 * dim * SubPix) \cup { FloatBelow(n) : n \in 1..(3 * dim) } :
                 FLess(v, high) }

\* <<int(left), int(left + width)>> (or top and height) for every draw.
PasteSlices(dim, ratio) ==
    { <<IntOfFloat(v), IntOfFloat(FAdd(v, FromInt(dim)))>> : v \in PasteDraws(dim, ratio) }

\* The rows (or columns) lo:hi of a slice of an axis of length n, 1-based.
SliceRange(lo, hi, n) == (lo + 1)..Min2(hi, n)

\* numpy broadcasts an axis of length n into one of length s.
Broadcasts(n, s) == n = s \/ n = 1

\* expand_image[int(top):int(top + height), int(left):int(left + width)] = image
\* numpy raises ValueError unless the image broadcasts into the slice.
PasteFits(img, ratio, cols, rows) ==
    /\ Broadcasts(img.height,
                  Cardinality(SliceRange(rows[1], rows[2], CanvasDim(img.height, ratio))))
    /\ Broadcasts(img.width,
                  Cardinality(SliceRange(cols[1], cols[2], CanvasDim(img.width, ratio))))

ExpandImage(img, ratio, cols, rows) ==
    LET ch == CanvasDim(img.height, ratio)
        cw == CanvasDim(img.width, ratio)
        rs == SliceRange(rows[1], rows[2], ch)
        cs == SliceRange(cols[1], cols[2], cw)
    IN  [height |-> ch, width |-> cw,
         data |-> [r \in 1..ch |-> [c \in 1..cw |->
                      IF r \in rs /\ c \in cs
                      THEN img.data[IF img.height = 1 THEN 1 ELSE r - rows[1]]
                                   [IF img.width = 1 THEN 1 ELSE c - cols[1]]
                      ELSE MeanPixel]]]

\* boxes[:, :2] += (int(left), int(top)); boxes[:, 2:] += (int(left), int(top))
ExpandBoxes(bxs, left, top) ==
    [i \in DOMAIN bxs |->
        <<FAdd(bxs[i][1], FromInt(left)), FAdd(bxs[i][2], FromInt(top)),
          FAdd(bxs[i][3], FromInt(left)), FAdd(bxs[i][4], FromInt(top))>>]

\* -------------------------------------------------------- RandomSampleCrop
\* for _ in range(50)
MaxTrials == 50

\* A bound of a mode that is None.
NoneBound == <<0, 0>>

\* self.sample_options; a bound is the rational <<n, d>> or NoneBound.
sample_options ==
    << [whole |-> TRUE,  min_iou |-> NoneBound, max_iou |-> NoneBound],
       [whole |-> FALSE, min_iou |-> <<1, 10>>, max_iou |-> NoneBound],
       [whole |-> FALSE, min_iou |-> <<3, 10>>, max_iou |-> NoneBound],
       [whole |-> FALSE, min_iou |-> <<7, 10>>, max_iou |-> NoneBound],
       [whole |-> FALSE, min_iou |-> <<9, 10>>, max_iou |-> NoneBound],
       [whole |-> FALSE, min_iou |-> NoneBound, max_iou |-> NoneBound] >>

\* random.uniform(low, high) on the grid: low <= v < high, or high < v <= low
\* when the bounds come in the other order, or low itself when they are equal.
Uniform(low, high) ==
    IF low = high THEN {low}
    ELSE IF low < high THEN low..(high - 1)
    ELSE (high + 1)..low

\* int(v) of a scalar kept as a count of 1/SubPix (the scalars are >= 0).
IntOf(u) == u \div SubPix

\* random.uniform(0.3 * dim, dim), as counts of 1/SubPix.
SizeDraws(dim) == {u \in Uniform(0, dim * SubPix) : 10 * u >= 3 * dim * SubPix}

\* random.uniform(dim - size): low = dim - size and high = 1.0, the default.
OffsetDraws(dim, u) == Uniform(dim * SubPix - u, SubPix)

\* not (h / w < 0.5 or h / w > 2)
AspectOk(w, h) == ~(2 * h < w \/ h > 2 * w)

\* np.array([int(left), int(top), int(left+w), int(top+h)])
CropRect(w, h, left, top) ==
    <<IntOf(left), IntOf(top), IntOf(left + w), IntOf(top + h)>>

\* The rectangles one trial can sample once the aspect ratio is accepted.
TrialRects(img) ==
    UNION { { CropRect(d[1], d[2], left, top) :
                left \in OffsetDraws(img.width, d[1]),
                top \in OffsetDraws(img.height, d[2]) } :
            d \in { e \in SizeDraws(img.width) \X SizeDraws(img.height) :
                      AspectOk(e[1], e[2]) } }

\* Some draw of w and h fails the aspect-ratio test.
AspectCanFail(img) ==
    \E w \in SizeDraws(img.width), h \in SizeDraws(img.height) : ~AspectOk(w, h)

RectF(rect) == <<FromInt(rect[1]), FromInt(rect[2]), FromInt(rect[3]), FromInt(rect[4])>>

\* overlap.min() and overlap.max() of a non-empty array; NaN propagates.
RECURSIVE ArrMin(_)
ArrMin(a) == IF Len(a) = 1 THEN a[1] ELSE FMin(a[1], ArrMin(Tail(a)))

RECURSIVE ArrMax(_)
ArrMax(a) == IF Len(a) = 1 THEN a[1] ELSE FMax(a[1], ArrMax(Tail(a)))

\* v < min_iou, where a None min_iou is float('-inf').
BelowMin(v, lim) == lim # NoneBound /\ FLessRat(v, lim[1], lim[2])

\* max_iou < v, where a None max_iou is float('inf').
AboveMax(v, lim) ==
    /\ lim # NoneBound
    /\ ~IsNaN(v)
    /\ IF v[2] >= 0 THEN lim[1] < v[1] * 2 ^ v[2] * lim[2]
       ELSE lim[1] * 2 ^ (0 - v[2]) < v[1] * lim[2]

\* overlap.min() < min_iou and max_iou < overlap.max()
\* (the conjuncts are written in the other order, which decides sooner)
Rejects(overlap, m) ==
    AboveMax(ArrMax(overlap), m.max_iou) /\ BelowMin(ArrMin(overlap), m.min_iou)

\* current_image[rect[1]:rect[3], rect[0]:rect[2], :]
CropImage(img, rect) ==
    LET rows == SliceRange(rect[2], rect[4], img.height)
        cols == SliceRange(rect[1], rect[3], img.width)
    IN  [height |-> Cardinality(rows), width |-> Cardinality(cols),
         data |-> [r \in 1..Cardinality(rows) |-> [c \in 1..Cardinality(cols) |->
                      img.data[r + rect[2]][c + rect[1]]]]]

\* centers = (boxes[:, :2] + boxes[:, 2:]) / 2.0
Center(box) == <<FMul(FAdd(box[1], box[3]), Half), FMul(FAdd(box[2], box[4]), Half)>>

\* m1 = (rect[0] < centers[:, 0]) * (rect[1] < centers[:, 1])
\* m2 = (rect[2] > centers[:, 0]) * (rect[3] > centers[:, 1]); mask = m1 * m2
CenterMask(bxs, rect) ==
    [i \in DOMAIN bxs |->
        LET c == Center(bxs[i])
        IN  /\ FLess(FromInt(rect[1]), c[1]) /\ FLess(FromInt(rect[2]), c[2])
            /\ FLess(c[1], FromInt(rect[3])) /\ FLess(c[2], FromInt(rect[4]))]

\* The indexes a boolean mask selects, in order.
MaskIndexes(mask) == SelectSeq([i \in 1..Len(mask) |-> i], LAMBDA i : mask[i])

\* a[mask]
Masked(a, mask) ==
    LET idx == MaskIndexes(mask) IN [k \in 1..Len(idx) |-> a[idx[k]]]

\* The clip to the rectangle without the translation to its corner.
RebaseNoShift(bxs, rect) ==
    LET r == RectF(rect)
    IN  [i \in DOMAIN bxs |->
            <<FMax(bxs[i][1], r[1]), FMax(bxs[i][2], r[2]),
              FMin(bxs[i][3], r[3]), FMin(bxs[i][4], r[4])>>]

\* current_boxes[:, :2] = np.maximum(current_boxes[:, :2], rect[:2])
\* current_boxes[:, :2] -= rect[:2]
\* current_boxes[:, 2:] = np.minimum(current_boxes[:, 2:], rect[2:])
\* current_boxes[:, 2:] -= rect[:2]
Rebase(bxs, rect) ==
    LET r == RectF(rect)
    IN  [i \in DOMAIN bxs |->
            <<FSub(FMax(bxs[i][1], r[1]), r[1]), FSub(FMax(bxs[i][2], r[2]), r[2]),
              FSub(FMin(bxs[i][3], r[3]), r[1]), FSub(FMin(bxs[i][4], r[4]), r[2])>>]

\* ------------------------------------------------------------------ state
VARIABLES
    image,      \* the image of the triple a stage receives and returns
    boxes,      \* its box array
    labels,     \* its label array
    pc,         \* "idle" between two stage calls; "choose" and "trial" inside
                \* RandomSampleCrop.__call__; "raised" once a call has raised
    mode,       \* RandomSampleCrop: index into sample_options of the mode drawn
    trial,      \* RandomSampleCrop: iterations of "for _ in range(50)" completed
    overlap,    \* the array jaccard_numpy returned last
    before,     \* the triple the current (or last) stage call received
    orig,       \* the triple the pipeline started from
    last,       \* what the stage call that returned last did
    flips,      \* the random gates of the RandomMirror calls so far
    todo,       \* PhotometricDistort: the transforms its Compose has still to call
    trace,      \* PhotometricDistort: the transforms it has called, in order
    budget      \* stage calls the pipeline has still to make

vars == <<image, boxes, labels, pc, mode, trial, overlap, before, orig, last,
          flips, todo, trace, budget>>

Triple(img, bxs, lbs) == [image |-> img, boxes |-> bxs, labels |-> lbs]

NoRect == <<0, 0, 0, 0>>

\* What a returned call did: the stage, whether its random gate (or the crop)
\* was taken, and what it drew: the mode and rectangle of a crop, the ratio
\* of an Expand and int(left), int(top) of its paste; for a RandomHue, left
\* is the delta it was constructed with.
Call(stage, gate, m, rect, ratio, left, top) ==
    [stage |-> stage, gate |-> gate, mode |-> m, rect |-> rect,
     ratio |-> ratio, left |-> left, top |-> top]

NoCall == Call("", FALSE, 0, NoRect, <<0, 0>>, 0, 0)

\* A stage call begins: t(img, boxes, labels) in Compose.__call__.
Begins ==
    /\ pc = "idle"
    /\ budget > 0
    /\ budget' = budget - 1
    /\ before' = Triple(image, boxes, labels)
    /\ UNCHANGED <<orig, todo, trace>>

\* ----------------------------------------------------------- stage calls
ToAbsoluteCoords ==
    /\ Begins
    /\ boxes' = ToAbsoluteBoxes(image, boxes)
    /\ last' = Call("ToAbsoluteCoords", TRUE, 0, NoRect, <<0, 0>>, 0, 0)
    /\ UNCHANGED <<image, labels, pc, mode, trial, overlap, flips>>

\* Dividing by a zero width or height is not modelled: images have pixels.
ToPercentCoords ==
    /\ Begins
    /\ boxes' = ToPercentBoxes(image, boxes)
    /\ last' = Call("ToPercentCoords", TRUE, 0, NoRect, <<0, 0>>, 0, 0)
    /\ UNCHANGED <<image, labels, pc, mode, trial, overlap, flips>>

\* if random.randint(2): flip
RandomMirror ==
    /\ Begins
    /\ \E gate \in BOOLEAN :
        /\ IF gate
           THEN /\ image' = MirrorImage(image)
                /\ boxes' = MirrorBoxes(image.width, boxes)
           ELSE UNCHANGED <<image, boxes>>
        /\ last' = Call("RandomMirror", gate, 0, NoRect, <<0, 0>>, 0, 0)
        /\ flips' = Append(flips, gate)
    /\ UNCHANGED <<labels, pc, mode, trial, overlap>>

\* if random.randint(2): return unchanged; else paste onto a larger canvas.
\* Images larger than MaxDim are not expanded.
Expand ==
    /\ Begins
    /\ image.height <= MaxDim /\ image.width <= MaxDim
    /\ \/ /\ last' = Call("Expand", FALSE, 0, NoRect, <<0, 0>>, 0, 0)
          /\ UNCHANGED <<image, boxes, pc>>
       \/ \E ratio \in RatioDraws :
          \E cols \in PasteSlices(image.width, ratio),
             rows \in PasteSlices(image.height, ratio) :
            IF PasteFits(image, ratio, cols, rows)
            THEN /\ image' = ExpandImage(image, ratio, cols, rows)
                 /\ boxes' = ExpandBoxes(boxes, cols[1], rows[1])
                 /\ last' = Call("Expand", TRUE, 0, NoRect, ratio, cols[1], rows[1])
                 /\ UNCHANGED pc
            ELSE \* the slice assignment raises ValueError
                 /\ pc' = "raised"
                 /\ UNCHANGED <<image, boxes, last>>
    /\ UNCHANGED <<labels, mode, trial, overlap, flips>>

\* RandomSampleCrop.__call__ is entered.  Images larger than MaxDim + 1
\* (the canvases of an Expand, but for the smallest) are not cropped.
CropCall ==
    /\ Begins
    /\ image.height <= MaxDim + 1 /\ image.width <= MaxDim + 1
    /\ pc' = "choose"
    /\ UNCHANGED <<image, boxes, labels, mode, trial, overlap, last, flips>>

\* mode = random.choice(self.sample_options); if mode is None: return
CropChoose ==
    /\ pc = "choose"
    /\ \E m \in DOMAIN sample_options :
        IF sample_options[m].whole
        THEN /\ pc' = "idle"
             /\ last' = Call("RandomSampleCrop", FALSE, m, NoRect, <<0, 0>>, 0, 0)
             /\ UNCHANGED <<mode, trial>>
        ELSE /\ pc' = "trial"
             /\ mode' = m
             /\ trial' = 0
             /\ UNCHANGED last
    /\ UNCHANGED <<image, boxes, labels, overlap, before, orig, flips, todo, trace, budget>>

\* continue: the next iteration, or the next mode once the 50 are used up.
Continue ==
    /\ IF trial + 1 < MaxTrials
       THEN pc' = "trial" /\ trial' = trial + 1 /\ UNCHANGED mode
       ELSE pc' = "choose" /\ trial' = 0 /\ mode' = 0
    /\ UNCHANGED <<image, boxes, labels, last>>

\* One iteration of the trial loop on the rectangle sampled.
TrialOn(rect) ==
    IF Len(boxes) = 0
    THEN \* overlap.min() of an empty array raises ValueError
         /\ pc' = "raised"
         /\ UNCHANGED <<image, boxes, labels, mode, trial, last>>
    ELSE IF Rejects(jaccard_numpy(boxes, RectF(rect)), sample_options[mode])
    THEN Continue
    ELSE LET mask == CenterMask(boxes, rect)
         IN  IF \A i \in DOMAIN mask : ~mask[i]
             THEN Continue
             ELSE /\ image' = CropImage(image, rect)
                  /\ boxes' = Rebase(Masked(boxes, mask), rect)
                  /\ labels' = Masked(labels, mask)
                  /\ pc' = "idle"
                  /\ mode' = 0
                  /\ trial' = 0
                  /\ last' = Call("RandomSampleCrop", TRUE, mode, rect, <<0, 0>>, 0, 0)

\* The overlap array is local to the iteration and is not kept.
CropTrial ==
    /\ pc = "trial"
    /\ \/ AspectCanFail(image) /\ Continue
       \/ \E rect \in TrialRects(image) : TrialOn(rect)
    /\ UNCHANGED <<overlap, before, orig, flips, todo, trace, budget>>

\* jaccard_numpy(boxes, box_b) called on its own.
JaccardCall(rects) ==
    /\ Begins
    /\ \E rect \in rects :
        /\ overlap' = jaccard_numpy(boxes, rect)
        /\ last' = Call("jaccard_numpy", TRUE, 0, rect, <<0, 0>>, 0, 0)
    /\ UNCHANGED <<image, boxes, labels, pc, mode, trial, flips>>

\* RandomHue(delta) called on its own.
RandomHue(deltas) ==
    /\ Begins
    /\ \E delta \in deltas, gate \in BOOLEAN :
        /\ IF gate
           THEN \E d \in HueDraws(delta) : image' = RandomHueImage(image, d)
           ELSE UNCHANGED image
        /\ last' = Call("RandomHue", gate, 0, NoRect, <<0, 0>>, delta, 0)
    /\ UNCHANGED <<boxes, labels, pc, mode, trial, overlap, flips>>

\* PhotometricDistort.__call__ down to the call of distort: the copy, the
\* brightness, and the choice of self.pd[:-1] or self.pd[1:].
PhotometricDistort ==
    /\ pc = "idle"
    /\ budget > 0
    /\ budget' = budget - 1
    /\ before' = Triple(image, boxes, labels)
    /\ image' \in {image} \cup { BrightnessImage(image, d) : d \in BrightnessDraws }
    /\ todo' \in {PdButLast, PdButFirst}
    /\ trace' = <<"RandomBrightness">>
    /\ pc' = "distort"
    /\ UNCHANGED <<boxes, labels, mode, trial, overlap, orig, last, flips>>

\* One iteration of "for t in self.transforms" of Compose.__call__.
Compose ==
    /\ pc = "distort"
    /\ todo # << >>
    /\ image' \in Transformed(Head(todo), image)
    /\ todo' = Tail(todo)
    /\ trace' = Append(trace, Head(todo))
    /\ UNCHANGED <<boxes, labels, pc, mode, trial, overlap, before, orig, last,
                   flips, budget>>

\* return self.rand_light_noise(im, boxes, labels)
RandomLightingNoise ==
    /\ pc = "distort"
    /\ todo = << >>
    /\ image' \in {image} \cup { SwapChannels(image, perms[k]) : k \in DOMAIN perms }
    /\ trace' = Append(trace, "RandomLightingNoise")
    /\ pc' = "idle"
    /\ last' = Call("PhotometricDistort", TRUE, 0, NoRect, <<0, 0>>, 0, 0)
    /\ UNCHANGED <<boxes, labels, mode, trial, overlap, before, orig, flips,
                   todo, budget>>

\* ------------------------------------------------------------ input data
\* The heights and widths of the input images.
Dims == {1, MaxDim}

\* The spans [lo, hi] of an axis of length d that input boxes are built from.
Spans(d) ==
    { <<FromInt(0), FromInt(d)>>,
      <<FromInt(0), Half>>,
      <<Fine, FromInt(d)>>,
      <<Half, Half>> }

\* Well-formed boxes inside an image of the given size.
BoxesIn(h, w) ==
    { <<sx[1], sy[1], sx[2], sy[2]>> : sx \in Spans(w), sy \in Spans(h) }

\* Two of them whose centres differ.
TwoBoxesIn(h, w) ==
    { <<FromInt(0), FromInt(0), Half, Half>>, <<Half, Half, FromInt(w), FromInt(h)>> }

\* The input box arrays: the empty one, every single box, and the arrays of
\* two rows or more over TwoBoxesIn.
BoxArrays(h, w) ==
    UNION { IF n <= 1 THEN [1..n -> BoxesIn(h, w)] ELSE [1..n -> TwoBoxesIn(h, w)] :
            n \in 0..MaxBoxes }

Start(img, bxs, lbs, n) ==
    /\ image = img
    /\ boxes = bxs
    /\ labels = lbs
    /\ pc = "idle"
    /\ mode = 0
    /\ trial = 0
    /\ overlap = << >>
    /\ before = Triple(img, bxs, lbs)
    /\ orig = Triple(img, bxs, lbs)
    /\ last = NoCall
    /\ flips = << >>
    /\ todo = << >>
    /\ trace = << >>
    /\ budget = n

LabelsFor(bxs) == [i \in 1..Len(bxs) |-> 10 + i]

\* The coordinates the boxes and rectangles given to jaccard_numpy are built
\* from: some are not whole pixels, and some sums and products of them round.
JaccardCoords == { FromInt(0), Fine, FDiv(FromInt(1), FromInt(3)), FromInt(MaxDim) }

JaccardBoxes ==
    { <<x[1], y[1], x[2], y[2]>> :
        x \in { p \in JaccardCoords \X JaccardCoords : FLeq(p[1], p[2]) },
        y \in { p \in JaccardCoords \X JaccardCoords : FLeq(p[1], p[2]) } }

\* The images of the hue transform: the hue channel takes the values of
\* [0, 360) at its ends and inside.
HueValues == { FromInt(0), Fine, FromInt(10), FromInt(350), FloatBelow(360) }

HueImage(hues) ==
    [height |-> 1, width |-> Len(hues),
     data |-> << [c \in 1..Len(hues) |-> <<hues[c], Half, FromInt(200)>>] >>]

\* delta of RandomHue(delta): the constructor asserts 0 <= delta <= 360.
HueDeltas == { 0, DefaultHueDelta, 360 }

\* The input of the end-to-end example: a 100 x 100 image, one box, one label.
ExampleInput ==
    Triple(IndexImage(100, 100),
           << <<FromInt(10), FromInt(10), FromInt(50), FromInt(50)>> >>, <<1>>)

\* ------------------------------------------------------ specifications
\* Any MaxStages calls of the box-changing stages, in any order, on the
\* images of width MaxDim.
Init ==
    \E h \in Dims :
    \E n \in 0..MaxBoxes :
    \E bxs \in [1..n -> TwoBoxesIn(h, MaxDim)] :
        Start(IndexImage(h, MaxDim), bxs, LabelsFor(bxs), MaxStages)

Next ==
    \/ ToAbsoluteCoords
    \/ ToPercentCoords
    \/ Expand
    \/ RandomMirror
    \/ CropCall
    \/ CropChoose
    \/ CropTrial

Spec == Init /\ [][Next]_vars

\* RandomMirror twice.
MirrorInit ==
    \E h \in Dims, w \in Dims :
    \E bxs \in BoxArrays(h, w) :
        Start(IndexImage(h, w), bxs, LabelsFor(bxs), 2)

MirrorSpec == MirrorInit /\ [][RandomMirror]_vars

\* Expand alone.
ExpandInit ==
    \E h \in Dims, w \in Dims :
    \E bxs \in BoxArrays(h, w) :
        Start(IndexImage(h, w), bxs, LabelsFor(bxs), 1)

ExpandSpec == ExpandInit /\ [][Expand]_vars

\* ToAbsoluteCoords alone, on the example and on the small images.
AbsInit ==
    \/ Start(ExampleInput.image, ExampleInput.boxes, ExampleInput.labels, 2)
    \/ \E h \in Dims, w \in Dims :
       \E bxs \in BoxArrays(h, w) :
           Start(IndexImage(h, w), bxs, LabelsFor(bxs), 2)

AbsSpec == AbsInit /\ [][ToAbsoluteCoords]_vars

\* jaccard_numpy alone, on one box and one rectangle.
JaccardInit ==
    \E bxs \in [1..1 -> JaccardBoxes] :
        Start(IndexImage(MaxDim, MaxDim), bxs, LabelsFor(bxs), 1)

JaccardNext == JaccardCall(JaccardBoxes)

JaccardSpec == JaccardInit /\ [][JaccardNext]_vars

\* RandomHue alone, on images of one pixel or two.
HueInit ==
    \E n \in 1..2 :
    \E hues \in [1..n -> HueValues] :
        Start(HueImage(hues), << >>, << >>, 1)

HueNext == RandomHue(HueDeltas)

HueSpec == HueInit /\ [][HueNext]_vars

\* PhotometricDistort alone, on an image of one pixel.
PhotoInit ==
    \E px \in PhotoPixels :
    \E bxs \in [1..1 -> TwoBoxesIn(1, 1)] :
        Start([height |-> 1, width |-> 1, data |-> << <<px>> >>], bxs, LabelsFor(bxs), 1)

PhotoNext == PhotometricDistort \/ Compose \/ RandomLightingNoise

PhotoSpec == PhotoInit /\ [][PhotoNext]_vars

\* ---------------------------------------------- RandomSampleCrop alone
CropInit ==
    \E h \in Dims, w \in Dims :
    \E bxs \in BoxArrays(h, w) :
        Start(IndexImage(h, w), bxs, LabelsFor(bxs), 1)

CropNext == CropCall \/ CropChoose \/ CropTrial

CropSpec == CropInit /\ [][CropNext]_vars

\* The calls on an image of MaxDim x MaxDim whose boxes are among two.
FairCropInit ==
    \E n \in 0..MaxBoxes :
    \E bxs \in [1..n -> TwoBoxesIn(MaxDim, MaxDim)] :
        Start(IndexImage(MaxDim, MaxDim), bxs, LabelsFor(bxs), 1)

\* random.choice draws every mode with probability 1/6 at each draw, so a
\* loop that draws for ever draws the keep-original mode.
CropKeep == CropChoose /\ pc' = "idle"

FairCropSpec ==
    FairCropInit /\ [][CropNext]_vars /\ WF_vars(CropNext) /\ SF_vars(CropKeep)

\* A RandomSampleCrop call has returned, and is the call that returned last.
CropReturned == pc = "idle" /\ last.stage = "RandomSampleCrop"

\* 0 <= (a + b) / 2 <= lim, in exact arithmetic.
MidWithin(a, b, lim) ==
    LET e == Min2(Min2(a[2], b[2]), 0)
        sum == Scaled(a, e) + Scaled(b, e)
    IN  ~IsNaN(a) /\ ~IsNaN(b) /\ 0 <= sum /\ sum <= 2 * lim * 2 ^ (0 - e)

\* C1: when RandomSampleCrop returns from a call with one box or more, in
\* whichever mode and trial, it returns as many labels as box rows, and the
\* centre of every returned box lies in [0, width] x [0, height] of the
\* returned image.
C1_CropCentersInside ==
    (CropReturned /\ Len(before.boxes) >= 1) =>
        /\ Len(labels) = Len(boxes)
        /\ \A i \in DOMAIN boxes :
            /\ MidWithin(boxes[i][1], boxes[i][3], image.width)
            /\ MidWithin(boxes[i][2], boxes[i][4], image.height)

\* A crop that kept one of two boxes and is smaller than the image.
C1_Witness ==
    /\ CropReturned /\ last.gate
    /\ Len(before.boxes) = 2 /\ Len(boxes) = 1 /\ Len(labels) = 1
    /\ image.width < before.image.width

\* The smallest overlap of the rectangle returned with the boxes received.
ReturnedMinOverlap == ArrMin(jaccard_numpy(before.boxes, RectF(last.rect)))

\* C8: a crop returned under a mode (min_iou, None) has a minimum Jaccard
\* overlap with the ground-truth boxes of min_iou or more.
C8_MinOverlapRespected ==
    (CropReturned /\ last.gate /\ sample_options[last.mode].min_iou # NoneBound) =>
        ~BelowMin(ReturnedMinOverlap, sample_options[last.mode].min_iou)

\* C9: the modes being drawn fairly, every RandomSampleCrop call returns a
\* triple and never raises: a mode runs 50 trials at most, using them up
\* draws the mode again instead of failing, and the keep-original mode
\* returns the triple received, unchanged.
C9_CropAlwaysReturns ==
    /\ (pc = "choose") ~> (pc = "idle")
    /\ [](pc # "raised")
    /\ [](trial < MaxTrials)
    /\ []((CropReturned /\ ~last.gate) => Triple(image, boxes, labels) = before)

\* What holds of C9 whatever the boxes: the trials of a mode are 50 at most,
\* and the keep-original mode returns the triple received.
CropTrialsBounded ==
    /\ trial < MaxTrials
    /\ (CropReturned /\ ~last.gate) => Triple(image, boxes, labels) = before

\* The calls that receive one box or more return, the modes being drawn
\* fairly.
CropReturnsGivenBoxes ==
    (pc = "choose" /\ Len(boxes) >= 1) ~> (pc = "idle")

\* Without the fairness of the draws the loop need not end: a mode can use
\* up its 50 trials and the draw of a mode come again.
CropModeNeverUsedUp ==
    ~(pc = "trial" /\ trial = MaxTrials - 1 /\ ENABLED (CropTrial /\ pc' = "choose"))

\* ------------------------------------------------------------ the claims
\* on the other transforms
\* C3: RandomMirror with its gate on both times returns every pixel and
\* every box row to its original value exactly.
C3_MirrorTwiceExact ==
    (flips = <<TRUE, TRUE>>) => (image = orig.image /\ boxes = orig.boxes)

\* width - x is a float: the subtraction does not round.
MirrorsExactly(width, x) ==
    LET d == ExactDiff(FromInt(width), x)
    IN  FSub(FromInt(width), x) = Norm(d[1], d[2])

\* C3, amended: RandomMirror with its gate on both times returns every
\* pixel, every label and every y coordinate exactly, and an x coordinate
\* exactly when width - x is a float, as it is for a whole number of pixels.
C3_MirrorTwice ==
    (flips = <<TRUE, TRUE>>) =>
        /\ image = orig.image
        /\ labels = orig.labels
        /\ Len(boxes) = Len(orig.boxes)
        /\ \A i \in DOMAIN boxes :
            /\ boxes[i][2] = orig.boxes[i][2]
            /\ boxes[i][4] = orig.boxes[i][4]
            /\ \A k \in {1, 3} :
                 MirrorsExactly(image.width, orig.boxes[i][k]) =>
                     boxes[i][k] = orig.boxes[i][k]

\* Two flips of an image of two columns and of a box the first flip moved.
C3_Witness ==
    /\ flips = <<TRUE, TRUE>>
    /\ image.width = MaxDim
    /\ Len(boxes) >= 1
    /\ before.boxes # boxes
    /\ boxes = orig.boxes

\* C4: an active Expand never fails to paste: the canvas is int(height*ratio)
\* by int(width*ratio), the image received is found unchanged at rows
\* int(top).. and columns int(left).. of it and fits inside, every other
\* pixel is the mean, and every box is translated by (int(left), int(top)).
C4_ExpandPastes ==
    /\ pc # "raised"
    /\ (last.stage = "Expand" /\ last.gate) =>
        LET img == before.image IN
        /\ image.height = CanvasDim(img.height, last.ratio)
        /\ image.width = CanvasDim(img.width, last.ratio)
        /\ last.top + img.height <= image.height
        /\ last.left + img.width <= image.width
        /\ \A r \in 1..image.height, c \in 1..image.width :
            IF r - last.top \in 1..img.height /\ c - last.left \in 1..img.width
            THEN image.data[r][c] = img.data[r - last.top][c - last.left]
            ELSE image.data[r][c] = MeanPixel
        /\ boxes = [i \in DOMAIN before.boxes |->
                      <<FAdd(before.boxes[i][1], FromInt(last.left)),
                        FAdd(before.boxes[i][2], FromInt(last.top)),
                        FAdd(before.boxes[i][3], FromInt(last.left)),
                        FAdd(before.boxes[i][4], FromInt(last.top))>>]
        /\ labels = before.labels

\* The hue channel of an image lies in [0, 360).
HueInRange(img) ==
    \A r \in 1..img.height, c \in 1..img.width :
        /\ FLeq(FromInt(0), img.data[r][c][1])
        /\ FLess(img.data[r][c][1], FromInt(360))

\* C5: an active RandomHue with delta in [0, 360], on an image whose hues
\* all lie in [0, 360), returns an image whose hues all lie in [0, 360).
C5_HueWrapped ==
    (last.stage = "RandomHue" /\ last.gate /\ last.left \in 0..360
        /\ HueInRange(before.image)) => HueInRange(image)

\* C6: ToAbsoluteCoords on the 100 x 100 image with the box [10,10,50,50]
\* and the label [1] leaves the box unchanged, and returns an image, boxes
\* and labels of the shapes received.
C6_AbsoluteKeepsExample ==
    (last.stage = "ToAbsoluteCoords" /\ before = ExampleInput) =>
        /\ boxes = before.boxes
        /\ image.height = before.image.height /\ image.width = before.image.width
        /\ Len(boxes) = Len(before.boxes) /\ Len(labels) = Len(before.labels)

\* C6, amended: ToAbsoluteCoords on the 100 x 100 image with the box
\* [10,10,50,50] and the label [1] multiplies x by the width and y by the
\* height, which gives the box [1000,1000,5000,5000], and returns an image,
\* boxes and labels of the shapes received.
C6_AbsoluteScalesExample ==
    (last.stage = "ToAbsoluteCoords" /\ before = ExampleInput) =>
        /\ boxes = << <<FromInt(1000), FromInt(1000), FromInt(5000), FromInt(5000)>> >>
        /\ image = before.image
        /\ labels = before.labels

\* ToAbsoluteCoords has returned from the example.
C6_Witness ==
    /\ last.stage = "ToAbsoluteCoords" /\ before = ExampleInput
    /\ image.height = 100 /\ Len(boxes) = 1 /\ labels = <<1>>

NonDegenerate(b) == FLess(b[1], b[3]) /\ FLess(b[2], b[4])

WellFormed(bxs) ==
    \A i \in DOMAIN bxs : FLeq(bxs[i][1], bxs[i][3]) /\ FLeq(bxs[i][2], bxs[i][4])

\* C10: the input boxes having x1 <= x2 and y1 <= y2, the boxes have x1 <= x2
\* and y1 <= y2 after any sequence of ToAbsoluteCoords, ToPercentCoords,
\* Expand, RandomMirror and RandomSampleCrop, whatever they draw.
C10_WellFormedKept == WellFormed(orig.boxes) => WellFormed(boxes)

\* A flip that moved the boxes, then a crop that returned some of them.
C10_Witness ==
    /\ flips = <<TRUE>>
    /\ CropReturned /\ last.gate
    /\ Len(boxes) >= 1
    /\ boxes # orig.boxes
    /\ budget = 0

PhotoReturned == pc = "idle" /\ last.stage = "PhotometricDistort"

\* C2: PhotometricDistort calls RandomBrightness first, then either contrast,
\* BGR->HSV, saturation, hue, HSV->BGR, or BGR->HSV, saturation, hue, HSV->BGR
\* with no contrast stage at all, then RandomLightingNoise last.
C2_NoContrastInSecond ==
    PhotoReturned =>
        trace \in { <<"RandomBrightness", "RandomContrast", "ConvertColor(BGR,HSV)",
                      "RandomSaturation", "RandomHue", "ConvertColor(HSV,BGR)",
                      "RandomLightingNoise">>,
                    <<"RandomBrightness", "ConvertColor(BGR,HSV)", "RandomSaturation",
                      "RandomHue", "ConvertColor(HSV,BGR)", "RandomLightingNoise">> }

\* C2, amended: PhotometricDistort calls RandomBrightness first, then either
\* contrast, BGR->HSV, saturation, hue, HSV->BGR, or BGR->HSV, saturation,
\* hue, HSV->BGR and then contrast, then RandomLightingNoise last.
C2_ContrastFirstOrLast ==
    PhotoReturned =>
        trace \in { <<"RandomBrightness", "RandomContrast", "ConvertColor(BGR,HSV)",
                      "RandomSaturation", "RandomHue", "ConvertColor(HSV,BGR)",
                      "RandomLightingNoise">>,
                    <<"RandomBrightness", "ConvertColor(BGR,HSV)", "RandomSaturation",
                      "RandomHue", "ConvertColor(HSV,BGR)", "RandomContrast",
                      "RandomLightingNoise">> }

\* A call that took the second sequence, contrast after HSV->BGR.
C2_Witness ==
    /\ PhotoReturned
    /\ trace[2] = "ConvertColor(BGR,HSV)"
    /\ trace[Len(trace) - 1] = "RandomContrast"

=============================================================================
